---- MODULE Spec2Model ----
(***************************************************************************)
(* CommandContext of evcxr (src/evcxr/src/command_context.rs): the layer   *)
(* that dispatches ':' commands, defers code, and calls the evaluation     *)
(* engine once per execute.                                                *)
(*                                                                         *)
(* Representation.  A string that the code inspects or stores is a         *)
(* sequence of one-character strings; a rendered text is a sequence of     *)
(* string pieces whose concatenation is the text.  Option<T> is a sequence *)
(* of length at most one.  An input text is represented by the segment     *)
(* sequence CodeBlock::original_user_code yields for it.                   *)
(***************************************************************************)
EXTENDS Integers, Sequences, FiniteSets, TLC

VARIABLES
    print_timings,   \* CommandContext.print_timings
    last_errors,     \* CommandContext.last_errors
    eval_context,    \* CommandContext.eval_context (the engine's settings and state)
    status,          \* "idle" | "running" | "done" | "exited" | "overflow"
    stack,           \* call stack of execute / load_config frames, innermost last
    ret,             \* the Result a finished call hands to its caller
    call,            \* history: the entry point and argument of the call in progress
    log,             \* history: the command dispatches and engine calls of the caller's execute
    toggles          \* history: the run of no-argument :opt dispatches just made

vars == <<print_timings, last_errors, eval_context, status, stack, ret, call, log, toggles>>

----------------------------------------------------------------------------
(* Bounds of the model *)

MaxSegs == 2
MaxErrs == 2
MaxArgLen == 4
MaxLines == 2
MaxDepth == 4
MaxVars == 2

----------------------------------------------------------------------------
(* Options, strings, segments *)

None == <<>>
Some(x) == <<x>>

Str0 == <<"0">>
Str1 == <<"1">>
Str2 == <<"2">>
Str3 == <<"3">>
FmtDebug == <<"{", ":", "?", "}">>
FmtDisplay == <<"{", "}">>

BoolStr(b) == IF b THEN <<"true">> ELSE <<"false">>

Code(c) == [kind |-> "Code", code |-> c, command |-> "", args |-> None]
Command(c, a) == [kind |-> "Command", code |-> "", command |-> c, args |-> a]

SeqsUpTo(S, n) == UNION {[1..m -> S] : m \in 0..n}

----------------------------------------------------------------------------
(* EvalOutputs and errors *)

EmptyMap == [m \in {} |-> <<>>]

EvalOutputs_new == [content_by_mime_type |-> EmptyMap, timing |-> None]

merge(self, other) ==
    [content_by_mime_type |->
        [m \in DOMAIN self.content_by_mime_type \cup DOMAIN other.content_by_mime_type |->
            IF m \in DOMAIN other.content_by_mime_type
            THEN other.content_by_mime_type[m]
            ELSE self.content_by_mime_type[m]],
     timing |-> IF other.timing # None THEN other.timing ELSE self.timing]

NoErr == [type |-> "None", msg |-> <<>>, errors |-> <<>>]
Message(m) == [type |-> "Message", msg |-> m, errors |-> <<>>]
CompilationErrors(es) == [type |-> "CompilationErrors", msg |-> <<>>, errors |-> es]
EngineError == [type |-> "Engine", msg |-> <<"engine">>, errors |-> <<>>]
IoError == [type |-> "Io", msg |-> <<"io">>, errors |-> <<>>]

Ok(o) == [kind |-> "Ok", out |-> o, err |-> NoErr, merged |-> <<>>]
Err(e) == [kind |-> "Err", out |-> EvalOutputs_new, err |-> e, merged |-> <<>>]
NoRet == [kind |-> "None", out |-> EvalOutputs_new, err |-> NoErr, merged |-> <<>>]

text_output(text) ==
    Ok([content_by_mime_type |-> [m \in {"text/plain"} |-> text \o <<"\n">>],
        timing |-> None])

----------------------------------------------------------------------------
(* Compiler diagnostics the engine can report *)

CompilationError(explanation, json) == [explanation |-> explanation, json |-> json]

Diagnostics ==
    { CompilationError(Some(<<"x1">>), <<"j1">>),
      CompilationError(Some(<<"x2">>), <<"j2">>),
      CompilationError(None, <<"j3">>) }

ErrLists == SeqsUpTo(Diagnostics, MaxErrs) \ {<<>>}

OneFailure == {<<CompilationError(Some(<<"x1">>), <<"j1">>)>>}

----------------------------------------------------------------------------
(* The evaluation engine (EvalContext), as far as CommandContext uses it *)

EvalContext_new ==
    [debug_mode |-> FALSE,
     preserve_vars_on_panic |-> FALSE,
     opt_level |-> Str2,
     output_format |-> FmtDebug,
     error_format |-> FmtDebug,
     time_passes |-> FALSE,
     sccache |-> FALSE,
     linker |-> <<"system">>,
     deps |-> EmptyMap,
     vars |-> <<>>]

\* EvalContext::set_opt_level: stores the level unless the engine rejects it.
EvalContext_set_opt_level(ec, level, engine_ok) ==
    IF engine_ok THEN [ec EXCEPT !.opt_level = level] ELSE ec

\* EvalContext::set_error_format: stores the format unless the engine rejects it.
EvalContext_set_error_format(ec, f, engine_ok) ==
    IF engine_ok THEN [ec EXCEPT !.error_format = f] ELSE ec

\* EvalContext::set_sccache: stores the flag unless the engine rejects it.
EvalContext_set_sccache(ec, b, engine_ok) ==
    IF engine_ok THEN [ec EXCEPT !.sccache = b] ELSE ec

\* EvalContext::clear: forgets the evaluation state (the variables) unless it fails.
EvalContext_clear(ec, engine_ok) ==
    IF engine_ok THEN [ec EXCEPT !.vars = <<>>] ELSE ec

\* EvalContext::add_dep: registers name -> spec unless the engine rejects it.
EvalContext_add_dep(ec, name, spec, engine_ok) ==
    IF engine_ok
    THEN [ec EXCEPT !.deps = [n \in DOMAIN ec.deps \cup {name} |->
                                 IF n = name THEN spec ELSE ec.deps[n]]]
    ELSE ec

EvalContext_error_format_trait(ec) ==
    IF ec.error_format = FmtDisplay THEN <<"std::fmt::Display">> ELSE <<"std::fmt::Debug">>

EvalContext_last_compile_dir(ec) == <<"last_compile_dir">>

\* What the engine prints for a successfully evaluated block of code.
EnginePayload(code) ==
    [content_by_mime_type |-> [m \in {"text/plain"} |-> <<"value of">> \o code],
     timing |-> None]

\* The results EvalContext::eval_with_callbacks can return for a block of code,
\* failures being the compilation failures it can report.
EvalResults(code, failures) ==
    {Ok(EvalOutputs_new), Ok(EnginePayload(code)), Err(EngineError)}
        \cup {Err(CompilationErrors(es)) : es \in failures}

----------------------------------------------------------------------------
(* process_dep_command: DEP_RE = "^([^= ]+) *(= *(.+))?$" *)

\* A pattern without the spaces between the name and the '=': "^([^= ]+)(= *(.+))?$".
DepReMatch_nospace(s, n, m, j) ==
    /\ n >= 1
    /\ m = 0
    /\ n <= Len(s)
    /\ \A i \in 1..n : s[i] \notin {"=", " "}
    /\ IF j = -1
       THEN n = Len(s)
       ELSE /\ n + 1 + j < Len(s)
            /\ s[n + 1] = "="
            /\ \A i \in (n + 2)..(n + 1 + j) : s[i] = " "
            /\ \A i \in (n + 2 + j)..Len(s) : s[i] # "\n"

\* A match of DEP_RE on s: n characters of group 1, m spaces, then either the end
\* (j = -1, group 2 absent) or '=', j spaces and a non-empty group 3 up to the end.
DepReMatch(s, n, m, j) ==
    /\ n >= 1
    /\ n + m <= Len(s)
    /\ \A i \in 1..n : s[i] \notin {"=", " "}
    /\ \A i \in (n + 1)..(n + m) : s[i] = " "
    /\ IF j = -1
       THEN n + m = Len(s)
       ELSE /\ n + m + 1 + j < Len(s)
            /\ s[n + m + 1] = "="
            /\ \A i \in (n + m + 2)..(n + m + 1 + j) : s[i] = " "
            /\ \A i \in (n + m + 2 + j)..Len(s) : s[i] # "\n"

DepReMatches(s) ==
    {t \in (1..Len(s)) \X (0..Len(s)) \X (-1..Len(s)) : DepReMatch(s, t[1], t[2], t[3])}

\* Greedy quantifiers: the regex engine reports the match that takes the most in
\* group 1, then the most spaces, then group 2 if it can, then the most spaces in it.
DepRePrefers(t, u) ==
    \/ t[1] > u[1]
    \/ t[1] = u[1] /\ t[2] > u[2]
    \/ t[1] = u[1] /\ t[2] = u[2] /\ t[3] >= u[3]

\* DEP_RE.captures(args): None, or Some of [1 |-> group 1, 3 |-> Option of group 3].
DepReCaptures(s) ==
    IF DepReMatches(s) = {} THEN None
    ELSE LET t == CHOOSE t \in DepReMatches(s) : \A u \in DepReMatches(s) : DepRePrefers(t, u)
         IN  Some([g1 |-> SubSeq(s, 1, t[1]),
                   g3 |-> IF t[3] = -1 THEN None
                          ELSE Some(SubSeq(s, t[1] + t[2] + 2 + t[3], Len(s)))])

DepWildcard == <<"\"", "*", "\"">>

process_dep_command(self, args, engine_ok) ==
    IF args = None
    THEN [self |-> self, result |-> Err(Message(<<":dep requires arguments">>))]
    ELSE LET captures == DepReCaptures(args[1]) IN
         IF captures # None
         THEN LET name == captures[1].g1
                  spec == IF captures[1].g3 = None THEN DepWildcard ELSE captures[1].g3[1]
              IN  IF engine_ok
                  THEN [self |-> [self EXCEPT !.eval_context =
                                     EvalContext_add_dep(self.eval_context, name, spec, TRUE)],
                        result |-> Ok(EvalOutputs_new)]
                  ELSE [self |-> self, result |-> Err(EngineError)]
         ELSE [self |-> self,
               result |-> Err(Message(<<"Invalid :dep command. Expected: name = ... or just name">>))]

----------------------------------------------------------------------------
(* Variable listing *)

\* A listing that writes names and types into the markup as they are.
html_escape_raw(input) == input

RECURSIVE html_escape(_)
html_escape(input) ==
    IF input = <<>> THEN <<>>
    ELSE (CASE Head(input) = "<" -> <<"&lt;">>
            [] Head(input) = ">" -> <<"&gt;">>
            [] OTHER -> <<Head(input)>>) \o html_escape(Tail(input))

RECURSIVE vars_as_text_from(_)
vars_as_text_from(vs) ==
    IF vs = <<>> THEN <<>>
    ELSE Head(vs).var \o <<": ">> \o Head(vs).ty \o <<"\n">> \o vars_as_text_from(Tail(vs))

vars_as_text(self) == vars_as_text_from(self.eval_context.vars)

RECURSIVE vars_as_html_rows(_)
vars_as_html_rows(vs) ==
    IF vs = <<>> THEN <<>>
    ELSE <<"<tr><td>">> \o html_escape(Head(vs).var) \o <<"</td><td>">>
            \o html_escape(Head(vs).ty) \o <<"</td><tr>">> \o vars_as_html_rows(Tail(vs))

vars_as_html(self) ==
    <<"<table><tr><th>Variable</th><th>Type</th></tr>">>
        \o vars_as_html_rows(self.eval_context.vars) \o <<"</table>">>

----------------------------------------------------------------------------
(* process_command: every arm except ":load_config" and ":quit", which call     *)
(* load_config and std::process::exit and are the actions further down.        *)

RECURSIVE explain_from(_, _)
explain_from(errors, all_explanations) ==
    IF errors = <<>> THEN text_output(all_explanations)
    ELSE IF Head(errors).explanation # None
         THEN explain_from(Tail(errors), all_explanations \o Head(errors).explanation[1])
         ELSE Err(Message(<<"Sorry, last error has no explanation">>))

\* An ":explain" that passes over a diagnostic without explanation.
RECURSIVE explain_skipping_from(_, _)
explain_skipping_from(errors, all_explanations) ==
    IF errors = <<>> THEN text_output(all_explanations)
    ELSE IF Head(errors).explanation # None
         THEN explain_skipping_from(Tail(errors), all_explanations \o Head(errors).explanation[1])
         ELSE explain_skipping_from(Tail(errors), all_explanations)

explain_skipping(self) ==
    IF self.last_errors = <<>>
    THEN Err(Message(<<"No last error to explain">>))
    ELSE explain_skipping_from(self.last_errors, <<>>)

explain(self) ==
    IF self.last_errors = <<>>
    THEN Err(Message(<<"No last error to explain">>))
    ELSE explain_from(self.last_errors, <<>>)

\* A ":last_error_json" that reports the first recorded diagnostic only.
last_error_json_first(errors, errors_out) ==
    IF errors = <<>> THEN errors_out ELSE Head(errors).json \o <<"\n">>

RECURSIVE last_error_json_from(_, _)
last_error_json_from(errors, errors_out) ==
    IF errors = <<>> THEN errors_out
    ELSE last_error_json_from(Tail(errors), errors_out \o Head(errors).json \o <<"\n">>)

\* A toggle that only ever switches the optimisation on.
opt_new_level_stuck(self, args) == IF args # None THEN args[1] ELSE Str2

opt_new_level(self, args) ==
    IF args # None THEN args[1]
    ELSE IF self.eval_context.opt_level = Str2 THEN Str0
    ELSE Str2

\* A ":clear" that forgets the recorded compilation failure too.
clear_all(self, engine_ok) ==
    [self |-> [self EXCEPT !.eval_context = EvalContext_clear(self.eval_context, engine_ok),
                            !.last_errors = IF engine_ok THEN <<>> ELSE @],
     result |-> IF engine_ok THEN Ok(EvalOutputs_new) ELSE Err(EngineError)]

\* ":clear" => self.eval_context.clear().map(|_| EvalOutputs::new()).
clear(self, engine_ok) ==
    [self |-> [self EXCEPT !.eval_context = EvalContext_clear(self.eval_context, engine_ok)],
     result |-> IF engine_ok THEN Ok(EvalOutputs_new) ELSE Err(EngineError)]

HelpText == <<":vars             List bound variables and their types ...">>

RecognisedCommands ==
    {":internal_debug", ":load_config", ":version", ":vars", ":preserve_vars_on_panic",
     ":clear", ":dep", ":last_compile_dir", ":opt", ":fmt", ":efmt", ":quit", ":timing",
     ":time_passes", ":sccache", ":linker", ":explain", ":last_error_json", ":help"}

\* A default arm that lets an unknown command pass.
unrecognised_ignored(self, command) == [self |-> self, result |-> Ok(EvalOutputs_new)]

\* The default arm: bail!("Unrecognised command {}", command).
unrecognised(self, command) ==
    [self |-> self, result |-> Err(Message(<<"Unrecognised command ", command>>))]

process_command(self, command, args, engine_ok) ==
    LET ec == self.eval_context IN
    CASE command = ":internal_debug" ->
            LET debug_mode == ~ec.debug_mode IN
            [self |-> [self EXCEPT !.eval_context.debug_mode = debug_mode],
             result |-> text_output(<<"Internals debugging: ">> \o BoolStr(debug_mode))]
      [] command = ":version" ->
            [self |-> self, result |-> text_output(<<"CARGO_PKG_VERSION">>)]
      [] command = ":vars" ->
            [self |-> self,
             result |-> Ok([content_by_mime_type |->
                               [m \in {"text/plain", "text/html"} |->
                                   IF m = "text/plain" THEN vars_as_text(self)
                                   ELSE vars_as_html(self)],
                            timing |-> None])]
      [] command = ":preserve_vars_on_panic" ->
            [self |-> [self EXCEPT !.eval_context.preserve_vars_on_panic = (args = Some(Str1))],
             result |-> text_output(<<"Preserve vars on panic: ">> \o BoolStr(args = Some(Str1)))]
      [] command = ":clear" -> clear(self, engine_ok)
      [] command = ":dep" -> process_dep_command(self, args, engine_ok)
      [] command = ":last_compile_dir" ->
            [self |-> self, result |-> text_output(EvalContext_last_compile_dir(ec))]
      [] command = ":opt" ->
            LET new_level == opt_new_level(self, args)
                ec2 == EvalContext_set_opt_level(ec, new_level, engine_ok)
            IN  [self |-> [self EXCEPT !.eval_context = ec2],
                 result |-> IF engine_ok
                            THEN text_output(<<"Optimization: ">> \o ec2.opt_level)
                            ELSE Err(EngineError)]
      [] command = ":fmt" ->
            LET new_format == IF args # None THEN args[1] ELSE FmtDebug IN
            [self |-> [self EXCEPT !.eval_context.output_format = new_format],
             result |-> text_output(<<"Output format: ">> \o new_format)]
      [] command = ":efmt" ->
            LET ec2 == IF args # None
                       THEN EvalContext_set_error_format(ec, args[1], engine_ok)
                       ELSE ec
            IN  [self |-> [self EXCEPT !.eval_context = ec2],
                 result |-> IF args # None /\ ~engine_ok
                            THEN Err(EngineError)
                            ELSE text_output(<<"Error format: ">> \o ec2.error_format
                                    \o <<" (errors must implement ">>
                                    \o EvalContext_error_format_trait(ec2) \o <<")">>)]
      [] command = ":timing" ->
            [self |-> [self EXCEPT !.print_timings = ~self.print_timings],
             result |-> text_output(<<"Timing: ">> \o BoolStr(~self.print_timings))]
      [] command = ":time_passes" ->
            [self |-> [self EXCEPT !.eval_context.time_passes = ~ec.time_passes],
             result |-> text_output(<<"Time passes: ">> \o BoolStr(~ec.time_passes))]
      [] command = ":sccache" ->
            LET ec2 == EvalContext_set_sccache(ec, args # Some(Str0), engine_ok) IN
            [self |-> [self EXCEPT !.eval_context = ec2],
             result |-> IF engine_ok
                        THEN text_output(<<"sccache: ">> \o BoolStr(ec2.sccache))
                        ELSE Err(EngineError)]
      [] command = ":linker" ->
            LET ec2 == IF args # None THEN [ec EXCEPT !.linker = args[1]] ELSE ec IN
            [self |-> [self EXCEPT !.eval_context = ec2],
             result |-> text_output(<<"linker: ">> \o ec2.linker)]
      [] command = ":explain" -> [self |-> self, result |-> explain(self)]
      [] command = ":last_error_json" ->
            [self |-> self,
             result |-> Err(Message(last_error_json_from(self.last_errors, <<>>)))]
      [] command = ":help" -> [self |-> self, result |-> text_output(HelpText)]
      [] OTHER -> unrecognised(self, command)

----------------------------------------------------------------------------
(* Call frames and history *)

\* An execute frame: input = the segments, i = the next segment, code =
\* non_command_code, out = eval_outputs.  A load_config frame: input = the lines of
\* init.evcxr, i = the next line, out = outputs.  merged is history: what has been
\* merged into out so far.
Frame(proc, pc, input) ==
    [proc |-> proc, pc |-> pc, input |-> input, i |-> 1, code |-> <<>>,
     out |-> EvalOutputs_new, merged |-> <<>>]

Top == stack[Len(stack)]
SetTop(f) == [stack EXCEPT ![Len(stack)] = f]
Pop == SubSeq(stack, 1, Len(stack) - 1)

Self == [print_timings |-> print_timings, last_errors |-> last_errors,
         eval_context |-> eval_context]

Event(ev, idx, command, args, code, res) ==
    [ev |-> ev, idx |-> idx, command |-> command, args |-> args, code |-> code, res |-> res]

\* log with event e, which is recorded when the caller's own execute makes it (not
\* an execute nested in a replay).
Logged(e) == IF Len(stack) = 1 THEN Append(log, e) ELSE log

\* What a merge into an accumulator brought: its origin and whether it carries a
\* payload the evaluation engine produced.
HasEnginePayload(o) ==
    \E m \in DOMAIN o.content_by_mime_type :
        /\ o.content_by_mime_type[m] # <<>>
        /\ Head(o.content_by_mime_type[m]) = "value of"

Merged(src, idx, o) == [src |-> src, idx |-> idx, engine |-> HasEnginePayload(o)]

\* call: the entry point and argument of the call in progress, and before: the
\* session as it was when the call began.
NoCall ==
    [api |-> "none", to_run |-> <<>>,
     before |-> [print_timings |-> FALSE, last_errors |-> <<>>, eval_context |-> EvalContext_new]]
NoToggles == [n |-> 0, orig |-> <<>>, mid |-> <<>>]

\* The run of successful no-argument ":opt" dispatches after one more of them at
\* level cur.
ToggleAfter(t, cur) ==
    IF t.n = 0 THEN [n |-> 1, orig |-> cur, mid |-> cur]
    ELSE [n |-> 2, orig |-> t.mid, mid |-> cur]

AbsentFile == [exists |-> FALSE, read |-> None]
UnreadableFile == [exists |-> TRUE, read |-> None]
TextFile(contents) == [exists |-> TRUE, read |-> Some(contents)]

Init ==
    /\ print_timings = FALSE
    /\ last_errors = <<>>
    /\ eval_context = EvalContext_new
    /\ status = "idle"
    /\ stack = <<>>
    /\ ret = NoRet
    /\ call = NoCall
    /\ log = <<>>
    /\ toggles = NoToggles

----------------------------------------------------------------------------
(* Returning and calling *)

\* The innermost call returns result r to its caller.
Return(r) ==
    /\ stack' = Pop
    /\ ret' = r
    /\ status' = IF Len(stack) = 1 THEN "done" ELSE "running"

\* The innermost frame becomes f and calls a new frame g; the process dies of stack
\* exhaustion when the stack is full.
Push(f, g) ==
    IF Len(stack) >= MaxDepth
    THEN /\ status' = "overflow"
         /\ UNCHANGED <<stack, ret>>
    ELSE /\ stack' = Append(SetTop(f), g)
         /\ ret' = NoRet
         /\ status' = "running"

----------------------------------------------------------------------------
(* execute / execute_with_callbacks *)

\* A caller enters execute(to_run).
execute(to_run) ==
    /\ status = "idle"
    /\ stack' = <<Frame("execute", "scan", to_run)>>
    /\ status' = "running"
    /\ ret' = NoRet
    /\ call' = [api |-> "execute", to_run |-> to_run, before |-> Self]
    /\ log' = <<>>
    /\ UNCHANGED <<print_timings, last_errors, eval_context, toggles>>

Scanning ==
    /\ status = "running"
    /\ Top.proc = "execute"
    /\ Top.pc = "scan"
    /\ Top.i <= Len(Top.input)

Segment == Top.input[Top.i]

\* A loop body that runs a code segment where it stands instead of deferring it.
ScanCode_eager ==
    /\ Scanning
    /\ Segment.kind = "Code"
    /\ stack' = SetTop([Top EXCEPT
                            !.out = merge(@, EnginePayload(<<Segment.code>>)),
                            !.merged = Append(@, Merged("eval", Top.i, EnginePayload(<<Segment.code>>))),
                            !.i = @ + 1])
    /\ log' = Logged(Event("eval", 0, "", None, <<Segment.code>>,
                                Ok(EnginePayload(<<Segment.code>>))))
    /\ UNCHANGED <<print_timings, last_errors, eval_context, status, ret, call, toggles>>

\* The loop body for a code segment: non_command_code.with_segment(segment).
ScanCode ==
    /\ Scanning
    /\ Segment.kind = "Code"
    /\ stack' = SetTop([Top EXCEPT !.code = Append(@, Segment.code), !.i = @ + 1])
    /\ UNCHANGED <<print_timings, last_errors, eval_context, status, ret, call, log, toggles>>

\* Whether the engine call a command makes can fail.
EngineOutcomes(command, args) ==
    IF \/ command \in {":clear", ":opt", ":sccache", ":dep"}
       \/ command = ":efmt" /\ args # None
    THEN BOOLEAN ELSE {TRUE}

\* A loop body that drops the error of a failed command and goes on.
ScanCommand_continue ==
    /\ Scanning
    /\ Segment.kind = "Command"
    /\ Segment.command \notin {":load_config", ":quit"}
    /\ \E engine_ok \in EngineOutcomes(Segment.command, Segment.args) :
        LET r == process_command(Self, Segment.command, Segment.args, engine_ok) IN
        /\ print_timings' = r.self.print_timings
        /\ last_errors' = r.self.last_errors
        /\ eval_context' = r.self.eval_context
        /\ log' = Logged(Event("command", Top.i, Segment.command, Segment.args, <<>>, r.result))
        /\ toggles' = NoToggles
        /\ stack' = SetTop([Top EXCEPT !.out = merge(@, r.result.out), !.i = @ + 1])
        /\ UNCHANGED <<status, ret, call>>

\* A loop body that undoes the commands of the call when one of them fails.
ScanCommand_rollback ==
    /\ Scanning
    /\ Segment.kind = "Command"
    /\ Segment.command \notin {":load_config", ":quit"}
    /\ \E engine_ok \in EngineOutcomes(Segment.command, Segment.args) :
        LET r == process_command(Self, Segment.command, Segment.args, engine_ok) IN
        /\ log' = Logged(Event("command", Top.i, Segment.command, Segment.args, <<>>, r.result))
        /\ toggles' = NoToggles
        /\ IF r.result.kind = "Ok"
           THEN /\ print_timings' = r.self.print_timings
                /\ last_errors' = r.self.last_errors
                /\ eval_context' = r.self.eval_context
                /\ stack' = SetTop([Top EXCEPT !.out = merge(@, r.result.out),
                                               !.merged = Append(@, Merged("command", Top.i, r.result.out)),
                                               !.i = @ + 1])
                /\ UNCHANGED <<status, ret>>
           ELSE /\ print_timings' = call.before.print_timings
                /\ last_errors' = call.before.last_errors
                /\ eval_context' = call.before.eval_context
                /\ Return(r.result)
        /\ UNCHANGED <<call>>

\* The loop body for a command segment: eval_outputs.merge(process_command(..)?).
ScanCommand ==
    /\ Scanning
    /\ Segment.kind = "Command"
    /\ Segment.command \notin {":load_config", ":quit"}
    /\ \E engine_ok \in EngineOutcomes(Segment.command, Segment.args) :
        LET r == process_command(Self, Segment.command, Segment.args, engine_ok) IN
        /\ print_timings' = r.self.print_timings
        /\ last_errors' = r.self.last_errors
        /\ eval_context' = r.self.eval_context
        /\ log' = Logged(Event("command", Top.i, Segment.command, Segment.args, <<>>, r.result))
        /\ toggles' = IF Segment.command = ":opt" /\ Segment.args = None /\ r.result.kind = "Ok"
                      THEN ToggleAfter(toggles, eval_context.opt_level)
                      ELSE NoToggles
        /\ IF r.result.kind = "Ok"
           THEN /\ stack' = SetTop([Top EXCEPT !.out = merge(@, r.result.out),
                                               !.merged = Append(@, Merged("command", Top.i, r.result.out)),
                                               !.i = @ + 1])
                /\ UNCHANGED <<status, ret>>
           ELSE Return(r.result)
        /\ UNCHANGED <<call>>

\* A ":quit" that is merged like any command and lets the scan go on.
ScanQuit_continue ==
    /\ Scanning
    /\ Segment.kind = "Command"
    /\ Segment.command = ":quit"
    /\ stack' = SetTop([Top EXCEPT !.i = @ + 1])
    /\ log' = Logged(Event("command", Top.i, ":quit", Segment.args, <<>>, Ok(EvalOutputs_new)))
    /\ toggles' = NoToggles
    /\ UNCHANGED <<print_timings, last_errors, eval_context, status, ret, call>>

\* ":quit" => std::process::exit(0).
ScanQuit ==
    /\ Scanning
    /\ Segment.kind = "Command"
    /\ Segment.command = ":quit"
    /\ status' = "exited"
    /\ log' = Logged(Event("command", Top.i, ":quit", Segment.args, <<>>, NoRet))
    /\ toggles' = NoToggles
    /\ UNCHANGED <<print_timings, last_errors, eval_context, stack, ret, call>>

\* if non_command_code.is_empty() { Ok(EvalOutputs::new()) } else { engine call }:
\* whether the engine is called for the deferred code.
EngineCalled_always(code) == TRUE

EngineCalled(code) == code # <<>>

\* if self.print_timings { eval_outputs.timing = Some(duration) }.
attach_timing_always(timings, eval_outputs) == [eval_outputs EXCEPT !.timing = Some("elapsed")]

\* A timing decided by the flag as it was when the call began.
attach_timing_at_start(timings, eval_outputs) ==
    IF call.before.print_timings THEN [eval_outputs EXCEPT !.timing = Some("elapsed")]
    ELSE eval_outputs

attach_timing(timings, eval_outputs) ==
    IF timings THEN [eval_outputs EXCEPT !.timing = Some("elapsed")] ELSE eval_outputs

\* match result: what last_errors is after the match.
record_failure_or_clear(errors, result) ==
    IF result.kind = "Err" /\ result.err.type = "CompilationErrors" THEN result.err.errors
    ELSE IF result.kind = "Ok" THEN <<>>
    ELSE errors

record_failure(errors, result) ==
    IF result.kind = "Err" /\ result.err.type = "CompilationErrors" THEN result.err.errors
    ELSE errors

\* The rest of execute_with_callbacks after the loop: the engine call, the last
\* merge, the timing, and the recording of a compilation failure.  failures are
\* the compilation failures the engine can report.
Evaluate(failures) ==
    /\ status = "running"
    /\ Top.proc = "execute"
    /\ Top.pc = "scan"
    /\ Top.i > Len(Top.input)
    /\ \E result \in (IF EngineCalled(Top.code) THEN EvalResults(Top.code, failures)
                      ELSE {Ok(EvalOutputs_new)}) :
        /\ log' = IF EngineCalled(Top.code)
                  THEN Logged(Event("eval", 0, "", None, Top.code, result))
                  ELSE log
        /\ last_errors' = record_failure(last_errors, result)
        /\ IF result.kind = "Ok"
           THEN Return([Ok(attach_timing(print_timings, merge(Top.out, result.out))) EXCEPT
                           !.merged = Append(Top.merged, Merged("eval", 0, result.out))])
           ELSE Return(result)
    /\ UNCHANGED <<print_timings, eval_context, call, toggles>>

\* execute's Result reaches the caller, who may then make the next call.
ReturnToCaller ==
    /\ status = "done"
    /\ status' = "idle"
    /\ ret' = NoRet
    /\ call' = NoCall
    /\ log' = <<>>
    /\ UNCHANGED <<print_timings, last_errors, eval_context, stack, toggles>>

\* CommandContext::set_opt_level(level).
set_opt_level(level) ==
    /\ status = "idle"
    /\ \E engine_ok \in BOOLEAN :
        eval_context' = EvalContext_set_opt_level(eval_context, level, engine_ok)
    /\ toggles' = NoToggles
    /\ UNCHANGED <<print_timings, last_errors, status, stack, ret, call, log>>

----------------------------------------------------------------------------
(* load_config *)

\* ":load_config" => self.load_config().
ScanLoadConfig ==
    /\ Scanning
    /\ Segment.kind = "Command"
    /\ Segment.command = ":load_config"
    /\ Push([Top EXCEPT !.pc = "call"], Frame("load_config", "open", <<>>))
    /\ log' = Logged(Event("command", Top.i, ":load_config", Segment.args, <<>>, NoRet))
    /\ toggles' = NoToggles
    /\ UNCHANGED <<print_timings, last_errors, eval_context, call>>

InLoadConfig(pc) ==
    /\ status = "running"
    /\ Top.proc = "load_config"
    /\ Top.pc = pc

\* The start of load_config: config_dir(), config_file.exists(), read_to_string.
\* has_config_dir and init are what the environment answers.
LoadConfigOpen(has_config_dir, init) ==
    /\ InLoadConfig("open")
    /\ IF ~has_config_dir THEN Return(Ok(Top.out))
       ELSE IF ~init.exists THEN
            /\ stack' = SetTop([Top EXCEPT !.pc = "prelude"])
            /\ UNCHANGED <<status, ret>>
       ELSE IF init.read = None THEN Return(Err(IoError))
       ELSE /\ stack' = SetTop([Top EXCEPT !.pc = "lines", !.input = init.read[1]])
            /\ UNCHANGED <<status, ret>>
    /\ UNCHANGED <<print_timings, last_errors, eval_context, call, log, toggles>>

\* for line in contents.lines(): self.execute(line), or the end of the loop.
LoadConfigLine ==
    /\ InLoadConfig("lines")
    /\ IF Top.i <= Len(Top.input)
       THEN Push([Top EXCEPT !.pc = "line_call"], Frame("execute", "scan", Top.input[Top.i]))
       ELSE /\ stack' = SetTop([Top EXCEPT !.pc = "prelude"])
            /\ UNCHANGED <<status, ret>>
    /\ UNCHANGED <<print_timings, last_errors, eval_context, call, log, toggles>>

\* A loop that goes on with the next line when a line has failed.
LoadConfigLineReturn_swallow ==
    /\ InLoadConfig("line_call")
    /\ stack' = SetTop([Top EXCEPT !.out = merge(@, ret.out), !.i = @ + 1, !.pc = "lines"])
    /\ ret' = NoRet
    /\ UNCHANGED <<print_timings, last_errors, eval_context, status, call, log, toggles>>

\* outputs.merge(self.execute(line)?).
LoadConfigLineReturn ==
    /\ InLoadConfig("line_call")
    /\ IF ret.kind = "Ok"
       THEN /\ stack' = SetTop([Top EXCEPT !.out = merge(@, ret.out),
                                           !.merged = Append(@, Merged("line", Top.i, ret.out)),
                                           !.i = @ + 1,
                                           !.pc = "lines"])
            /\ ret' = NoRet
            /\ UNCHANGED status
       ELSE Return(ret)
    /\ UNCHANGED <<print_timings, last_errors, eval_context, call, log, toggles>>

\* prelude_file.exists(), read_to_string, self.execute(&prelude); prelude is what
\* the environment answers.
LoadConfigPrelude(prelude) ==
    /\ InLoadConfig("prelude")
    /\ IF ~prelude.exists THEN Return(Ok(Top.out))
       ELSE IF prelude.read = None THEN Return(Err(IoError))
       ELSE Push([Top EXCEPT !.pc = "prelude_call"], Frame("execute", "scan", prelude.read[1]))
    /\ UNCHANGED <<print_timings, last_errors, eval_context, call, log, toggles>>

\* outputs.merge(self.execute(&prelude)?); Ok(outputs).
LoadConfigPreludeReturn ==
    /\ InLoadConfig("prelude_call")
    /\ IF ret.kind = "Ok"
       THEN Return(Ok(merge(Top.out, ret.out)))
       ELSE Return(ret)
    /\ UNCHANGED <<print_timings, last_errors, eval_context, call, log, toggles>>

\* eval_outputs.merge(self.process_command(..)?) once load_config has returned.
CommandReturn ==
    /\ status = "running"
    /\ Top.proc = "execute"
    /\ Top.pc = "call"
    /\ IF ret.kind = "Ok"
       THEN /\ stack' = SetTop([Top EXCEPT !.out = merge(@, ret.out),
                                           !.merged = Append(@, Merged("command", Top.i, ret.out)),
                                           !.i = @ + 1,
                                           !.pc = "scan"])
            /\ ret' = NoRet
            /\ UNCHANGED status
       ELSE Return(ret)
    /\ UNCHANGED <<print_timings, last_errors, eval_context, call, log, toggles>>

----------------------------------------------------------------------------
(* completions *)

\* The Completions the engine computes for a block of code, in the shape of the
\* Result register.
CompletionsValue(code) ==
    [content_by_mime_type |-> [m \in {"completions"} |-> <<"completions of">> \o code],
     timing |-> None]

\* The results EvalContext::completions can return.
CompletionResults(code) == {Ok(CompletionsValue(code)), Err(EngineError)}

\* A caller enters completions(src, position).
completions(src) ==
    /\ status = "idle"
    /\ stack' = <<Frame("completions", "scan", src)>>
    /\ status' = "running"
    /\ ret' = NoRet
    /\ call' = [api |-> "completions", to_run |-> src, before |-> Self]
    /\ log' = <<>>
    /\ toggles' = NoToggles
    /\ UNCHANGED <<print_timings, last_errors, eval_context>>

CompletionsScanning ==
    /\ status = "running"
    /\ Top.proc = "completions"
    /\ Top.pc = "scan"
    /\ Top.i <= Len(Top.input)

\* A loop body that hands a failed ":dep" to the caller: self.process_dep_command(..)?.
CompletionsDep_propagate ==
    /\ CompletionsScanning
    /\ Segment.kind = "Command"
    /\ Segment.command = ":dep"
    /\ \E engine_ok \in BOOLEAN :
        LET r == process_dep_command(Self, Segment.args, engine_ok) IN
        /\ eval_context' = r.self.eval_context
        /\ log' = Logged(Event("command", Top.i, ":dep", Segment.args, <<>>, r.result))
        /\ IF r.result.kind = "Ok"
           THEN /\ stack' = SetTop([Top EXCEPT !.i = @ + 1])
                /\ UNCHANGED <<status, ret>>
           ELSE Return(r.result)
    /\ UNCHANGED <<print_timings, last_errors, call, toggles>>

\* The loop body for a ":dep" segment: let _ = self.process_dep_command(..);
\* let _ = self.eval_context.write_cargo_toml(); both results are dropped.
CompletionsDep ==
    /\ CompletionsScanning
    /\ Segment.kind = "Command"
    /\ Segment.command = ":dep"
    /\ \E engine_ok \in BOOLEAN :
        LET r == process_dep_command(Self, Segment.args, engine_ok) IN
        /\ eval_context' = r.self.eval_context
        /\ log' = Logged(Event("command", Top.i, ":dep", Segment.args, <<>>, r.result))
    /\ stack' = SetTop([Top EXCEPT !.i = @ + 1])
    /\ UNCHANGED <<print_timings, last_errors, status, ret, call, toggles>>

\* A loop body that dispatches the other commands as execute does.
CompletionsSkip_apply ==
    /\ CompletionsScanning
    /\ Segment.kind = "Command"
    /\ Segment.command # ":dep"
    /\ LET r == process_command(Self, Segment.command, Segment.args, TRUE) IN
        /\ print_timings' = r.self.print_timings
        /\ eval_context' = r.self.eval_context
        /\ log' = Logged(Event("command", Top.i, Segment.command, Segment.args, <<>>, r.result))
    /\ stack' = SetTop([Top EXCEPT !.i = @ + 1])
    /\ UNCHANGED <<last_errors, status, ret, call, toggles>>

\* The loop body for a command segment other than ":dep": nothing.
CompletionsSkip ==
    /\ CompletionsScanning
    /\ Segment.kind = "Command"
    /\ Segment.command # ":dep"
    /\ stack' = SetTop([Top EXCEPT !.i = @ + 1])
    /\ UNCHANGED <<print_timings, last_errors, eval_context, status, ret, call, log, toggles>>

\* The loop body for a code segment: non_command_code.with_segment(segment).
CompletionsCode ==
    /\ CompletionsScanning
    /\ Segment.kind = "Code"
    /\ stack' = SetTop([Top EXCEPT !.code = Append(@, Segment.code), !.i = @ + 1])
    /\ UNCHANGED <<print_timings, last_errors, eval_context, status, ret, call, log, toggles>>

\* self.eval_context.completions(non_command_code, position): the result of
\* completions is the engine's.
CompletionsEngine ==
    /\ status = "running"
    /\ Top.proc = "completions"
    /\ Top.pc = "scan"
    /\ Top.i > Len(Top.input)
    /\ \E result \in CompletionResults(Top.code) :
        /\ log' = Logged(Event("completions", 0, "", None, Top.code, result))
        /\ Return(result)
    /\ UNCHANGED <<print_timings, last_errors, eval_context, call, toggles>>

----------------------------------------------------------------------------
(* Specifications *)

\* Code and the commands of the session itself, in every interleaving.
CoreSegments ==
    {Code("a"), Code("b"), Command(":timing", None), Command(":explain", None),
     Command(":internal_debug", None), Command(":bogus", None)}

CoreInputs == SeqsUpTo(CoreSegments, MaxSegs)

Next ==
    \/ \E to_run \in CoreInputs : execute(to_run)
    \/ ScanCode
    \/ ScanCommand
    \/ Evaluate(ErrLists)
    \/ ReturnToCaller

Spec == Init /\ [][Next]_vars

\* Startup replay: ":load_config" among code and a session command, over the files
\* the configuration directory can hold.
ReplayInputs ==
    SeqsUpTo({Command(":load_config", None), Code("a"), Command(":timing", None)}, MaxSegs)

StartupLines ==
    {<<Command(":timing", None)>>, <<Code("b")>>, <<Command(":bogus", None)>>}

InitFiles == {AbsentFile, UnreadableFile} \cup {TextFile(ls) : ls \in SeqsUpTo(StartupLines, MaxLines)}

PreludeFiles ==
    {AbsentFile, UnreadableFile, TextFile(<<Code("b")>>),
     TextFile(<<Code("a"), Command(":timing", None), Code("b")>>)}

NextReplay ==
    \/ \E to_run \in ReplayInputs : execute(to_run)
    \/ ScanCode
    \/ ScanCommand
    \/ ScanLoadConfig
    \/ \E has_config_dir \in BOOLEAN, init \in InitFiles : LoadConfigOpen(has_config_dir, init)
    \/ LoadConfigLine
    \/ LoadConfigLineReturn
    \/ \E prelude \in PreludeFiles : LoadConfigPrelude(prelude)
    \/ LoadConfigPreludeReturn
    \/ CommandReturn
    \/ Evaluate(OneFailure)
    \/ ReturnToCaller

SpecReplay == Init /\ [][NextReplay]_vars

\* One dependency declaration, over every argument text up to MaxArgLen, in a
\* session that has declared none yet.
DepChars == {"a", "=", " ", "\t"}

DepArgs == {None} \cup {Some(s) : s \in SeqsUpTo(DepChars, MaxArgLen)}

NextDep ==
    \/ \E args \in DepArgs :
          /\ eval_context.deps = EmptyMap
          /\ execute(<<Command(":dep", args)>>)
    \/ ScanCommand
    \/ Evaluate(OneFailure)
    \/ ReturnToCaller

SpecDep == Init /\ [][NextDep]_vars

\* The optimisation level: ":opt" with and without a level, code, and the
\* set_opt_level entry point.
OptLevels == {Str0, Str2, Str3}

OptInputs ==
    SeqsUpTo({Command(":opt", None), Command(":opt", Some(Str3)), Command(":opt", Some(Str0)),
              Code("a")}, MaxSegs)

NextOpt ==
    \/ \E to_run \in OptInputs : execute(to_run)
    \/ \E level \in OptLevels : set_opt_level(level)
    \/ ScanCode
    \/ ScanCommand
    \/ Evaluate(OneFailure)
    \/ ReturnToCaller

SpecOpt == Init /\ [][NextOpt]_vars

\* The variable listing: ":vars" among code, in a session whose engine holds the
\* variables earlier evaluations have bound.
VarNames == {<<"x">>, <<"a", "<", "b">>}
VarTypes == {<<"i">>, <<"V", "<", "i", ">">>, <<">", ">">>}

Variable(var, ty) == [var |-> var, ty |-> ty]

VarLists == SeqsUpTo({Variable(var, ty) : var \in VarNames, ty \in VarTypes}, MaxVars)

InitVars ==
    /\ print_timings = FALSE
    /\ last_errors = <<>>
    /\ \E vs \in VarLists : eval_context = [EvalContext_new EXCEPT !.vars = vs]
    /\ status = "idle"
    /\ stack = <<>>
    /\ ret = NoRet
    /\ call = NoCall
    /\ log = <<>>
    /\ toggles = NoToggles

VarsInputs == SeqsUpTo({Command(":vars", None), Code("a")}, MaxSegs)

NextVars ==
    \/ \E to_run \in VarsInputs : execute(to_run)
    \/ ScanCode
    \/ ScanCommand
    \/ Evaluate(OneFailure)
    \/ ReturnToCaller

SpecVars == InitVars /\ [][NextVars]_vars

\* The recorded failure: ":last_error_json", ":explain" and ":clear" among code and
\* ":timing", in a session whose engine may hold a variable.
SessionVars == {<<>>, <<Variable(<<"x">>, <<"i">>)>>}

InitSession ==
    /\ print_timings = FALSE
    /\ last_errors = <<>>
    /\ \E vs \in SessionVars : eval_context = [EvalContext_new EXCEPT !.vars = vs]
    /\ status = "idle"
    /\ stack = <<>>
    /\ ret = NoRet
    /\ call = NoCall
    /\ log = <<>>
    /\ toggles = NoToggles

SomeFailures ==
    { <<CompilationError(Some(<<"x1">>), <<"j1">>), CompilationError(Some(<<"x2">>), <<"j2">>)>>,
      <<CompilationError(None, <<"j3">>)>> }

ErrInputs ==
    SeqsUpTo({Code("a"), Command(":last_error_json", None), Command(":explain", None),
              Command(":clear", None), Command(":timing", None)}, MaxSegs)

NextErr ==
    \/ \E to_run \in ErrInputs : execute(to_run)
    \/ ScanCode
    \/ ScanCommand
    \/ Evaluate(SomeFailures)
    \/ ReturnToCaller

SpecErr == InitSession /\ [][NextErr]_vars

\* Termination of the process: ":quit" among code and ":timing".
QuitInputs ==
    SeqsUpTo({Code("a"), Command(":quit", None), Command(":timing", None),
              Command(":internal_debug", None)}, MaxSegs)

NextQuit ==
    \/ \E to_run \in QuitInputs : execute(to_run)
    \/ ScanCode
    \/ ScanCommand
    \/ ScanQuit
    \/ Evaluate(OneFailure)
    \/ ReturnToCaller

SpecQuit == Init /\ [][NextQuit]_vars

\* Completion queries over inputs with dependency declarations (well-formed and
\* not), code and other commands, in a session that execute calls have configured.
ComplSegments ==
    {Code("a"), Command(":dep", Some(<<"a">>)), Command(":dep", Some(<<"b", "=", "1">>)),
     Command(":dep", Some(<<"=">>)), Command(":dep", None), Command(":quit", None),
     Command(":timing", None), Command(":load_config", None), Command(":opt", Some(Str3))}

ComplInputs == SeqsUpTo(ComplSegments, MaxSegs)

ComplExecInputs == {<<Command(":timing", None)>>, <<Code("a")>>}

NextCompl ==
    \/ \E src \in ComplInputs : completions(src)
    \/ CompletionsDep
    \/ CompletionsSkip
    \/ CompletionsCode
    \/ CompletionsEngine
    \/ \E to_run \in ComplExecInputs : execute(to_run)
    \/ ScanCode
    \/ ScanCommand
    \/ Evaluate(OneFailure)
    \/ ReturnToCaller

SpecCompl == Init /\ [][NextCompl]_vars

\* Startup replay over a startup file that may itself hold ":load_config".
RecurInputs == {<<Command(":load_config", None)>>, <<Code("a"), Command(":load_config", None)>>}

RecurLines == {<<Command(":load_config", None)>>, <<Command(":timing", None)>>}

RecurInitFiles == {AbsentFile} \cup {TextFile(ls) : ls \in SeqsUpTo(RecurLines, MaxLines)}

RecurPreludeFiles == {AbsentFile, TextFile(<<Code("b")>>)}

NextRecur ==
    \/ \E to_run \in RecurInputs : execute(to_run)
    \/ ScanCode
    \/ ScanCommand
    \/ ScanLoadConfig
    \/ \E has_config_dir \in BOOLEAN, init \in RecurInitFiles : LoadConfigOpen(has_config_dir, init)
    \/ LoadConfigLine
    \/ LoadConfigLineReturn
    \/ \E prelude \in RecurPreludeFiles : LoadConfigPrelude(prelude)
    \/ LoadConfigPreludeReturn
    \/ CommandReturn
    \/ Evaluate(OneFailure)
    \/ ReturnToCaller

SpecRecur == Init /\ [][NextRecur]_vars

\* Calls that fail part-way: commands that change the session, commands that fail,
\* and code, in every interleaving.
FailInputs ==
    SeqsUpTo({Code("a"), Command(":timing", None), Command(":fmt", Some(FmtDisplay)),
              Command(":dep", Some(<<"a">>)), Command(":clear", None), Command(":bogus", None),
              Command(":last_error_json", None)}, MaxSegs)

NextFail ==
    \/ \E to_run \in FailInputs : execute(to_run)
    \/ ScanCode
    \/ ScanCommand
    \/ Evaluate(OneFailure)
    \/ ReturnToCaller

SpecFail == InitSession /\ [][NextFail]_vars

----------------------------------------------------------------------------
(* Helpers of the properties *)

Last(q) == q[Len(q)]

RECURSIVE Flatten(_)
Flatten(qs) == IF qs = <<>> THEN <<>> ELSE Head(qs) \o Flatten(Tail(qs))

\* The positions of the command segments of an input, in textual order.
RECURSIVE CommandIdxsFrom(_, _)
CommandIdxsFrom(segs, i) ==
    IF i > Len(segs) THEN <<>>
    ELSE IF segs[i].kind = "Command" THEN <<i>> \o CommandIdxsFrom(segs, i + 1)
    ELSE CommandIdxsFrom(segs, i + 1)

CommandIdxs(segs) == CommandIdxsFrom(segs, 1)

\* The code segments of an input, in textual order.
CodeFragments(segs) ==
    LET RECURSIVE from(_)
        from(i) == IF i > Len(segs) THEN <<>>
                   ELSE IF segs[i].kind = "Code" THEN <<segs[i].code>> \o from(i + 1)
                   ELSE from(i + 1)
    IN  from(1)

\* This step makes an engine evaluation.
NewEval == Len(log') = Len(log) + 1 /\ Last(log').ev = "eval"

\* The innermost execute has scanned all its segments.
ScanFinished ==
    /\ status = "running"
    /\ Top.proc = "execute"
    /\ Top.pc = "scan"
    /\ Top.i > Len(Top.input)

\* This step dispatches the command the innermost execute stands at.
Dispatches(command) ==
    /\ Scanning
    /\ Segment.kind = "Command"
    /\ Segment.command = command
    /\ vars' # vars

----------------------------------------------------------------------------
(* Properties of execute *)

\* C1: in an execute call every command fragment of the input is dispatched, in
\* textual order, before the engine is invoked, and the engine then gets all the
\* code fragments as one unit in their textual order, also those that precede a
\* command: an engine call is the last event of the call, the events before it are
\* exactly the input's commands in order, and its code is the input's code.
C1_CommandsBeforeCode ==
    /\ \A p, q \in 1..Len(log) :
          (p < q /\ log[p].ev = "command" /\ log[q].ev = "command") => log[p].idx < log[q].idx
    /\ \A p \in 1..Len(log) :
          log[p].ev = "eval" =>
            /\ p = Len(log)
            /\ \A q \in 1..(p - 1) : log[q].ev = "command"
            /\ [q \in 1..(p - 1) |-> log[q].idx] = CommandIdxs(call.to_run)
            /\ log[p].code = CodeFragments(call.to_run)

C1_Witness ==
    /\ status = "done"
    /\ Len(call.to_run) = 2
    /\ call.to_run[1].kind = "Code"
    /\ call.to_run[2].kind = "Command"
    /\ Len(log) = 2
    /\ log[1].ev = "command"
    /\ log[2].ev = "eval"

\* C2: last_errors changes only in a step in which the engine reports a
\* compilation failure, and that step makes it exactly the failure's records;
\* every other step (a successful evaluation, another engine error, a command that
\* fails or succeeds) leaves it as it was.
C2_LastErrorsOnlyOnCompilationFailure ==
    [][ /\ last_errors' # last_errors =>
              /\ NewEval
              /\ Last(log').res.err.type = "CompilationErrors"
        /\ (NewEval /\ Last(log').res.err.type = "CompilationErrors") =>
              last_errors' = Last(log').res.err.errors
        /\ (NewEval /\ Last(log').res.err.type # "CompilationErrors") =>
              last_errors' = last_errors ]_vars

C2_Witness ==
    /\ status = "done"
    /\ ret.kind = "Ok"
    /\ log # <<>>
    /\ Last(log).ev = "eval"
    /\ Len(last_errors) = 2

\* C3: the engine is invoked only by the step that follows the scan, once, with
\* all the code fragments of the input, and only if there is one; with no code
\* fragment that step makes no engine call and succeeds with what the commands
\* had put into the accumulator.
C3_EngineInvokedOnce ==
    [][ /\ NewEval =>
              /\ ScanFinished
              /\ Last(log').code = CodeFragments(Top.input)
              /\ Last(log').code # <<>>
              /\ stack' = Pop
        /\ (ScanFinished /\ vars' # vars) =>
              IF CodeFragments(Top.input) # <<>>
              THEN NewEval
              ELSE /\ log' = log
                   /\ ret'.kind = "Ok"
                   /\ ret'.out.content_by_mime_type = Top.out.content_by_mime_type ]_vars

C3_Witness ==
    /\ status = "done"
    /\ CodeFragments(call.to_run) = <<"a", "b">>
    /\ Len(log) = 1
    /\ log[1].ev = "eval"
    /\ log[1].code = <<"a", "b">>

\* C9: a successful execute of an input without command fragments returns the
\* engine's own output (nothing when there was no code to evaluate), with the
\* elapsed time attached iff print_timings is set; a failed one returns no
\* accumulator and no timing.
C9_CodeOnlyOutput ==
    (status = "done" /\ call.api = "execute" /\ CommandIdxs(call.to_run) = <<>>) =>
        IF ret.kind = "Ok"
        THEN /\ ret.out.content_by_mime_type =
                    (IF log = <<>> THEN EmptyMap ELSE Last(log).res.out.content_by_mime_type)
             /\ (ret.out.timing # None) <=> print_timings
        ELSE ret.out = EvalOutputs_new

C9_Witness ==
    /\ status = "done"
    /\ call.to_run = <<Code("a"), Code("b")>>
    /\ ret.kind = "Ok"
    /\ HasEnginePayload(ret.out)
    /\ print_timings
    /\ ret.out.timing # None

\* C10: dispatching a command whose name is not recognised fails with an error
\* that carries the name, ends the call without an engine call, and leaves
\* print_timings, last_errors and the engine as they were.
C10_UnrecognisedCommand ==
    [][ (/\ Scanning
         /\ Segment.kind = "Command"
         /\ Segment.command \notin RecognisedCommands
         /\ vars' # vars) =>
            /\ ret'.kind = "Err"
            /\ ret'.err.type = "Message"
            /\ \E k \in 1..Len(ret'.err.msg) : ret'.err.msg[k] = Segment.command
            /\ stack' = Pop
            /\ ~NewEval
            /\ print_timings' = print_timings
            /\ last_errors' = last_errors
            /\ eval_context' = eval_context ]_vars

C10_Witness ==
    /\ status = "done"
    /\ log # <<>>
    /\ Last(log).ev = "command"
    /\ Last(log).command = ":bogus"
    /\ ret.kind = "Err"
    /\ print_timings
    /\ last_errors # <<>>
    /\ eval_context.debug_mode

\* C6: ":explain" fails with "No last error to explain" exactly when last_errors
\* is empty, fails with another message when a recorded diagnostic has no
\* explanation, and otherwise puts the explanations of all recorded diagnostics,
\* in record order, into the accumulator; last_errors stays as it was.
C6_Explain ==
    [][ Dispatches(":explain") =>
            /\ last_errors' = last_errors
            /\ IF last_errors = <<>>
               THEN ret' = Err(Message(<<"No last error to explain">>))
               ELSE IF \E k \in 1..Len(last_errors) : last_errors[k].explanation = None
               THEN /\ ret'.kind = "Err"
                    /\ ret'.err.type = "Message"
                    /\ ret'.err.msg = <<"Sorry, last error has no explanation">>
               ELSE /\ ret'.kind # "Err"
                    /\ Len(stack') = Len(stack)
                    /\ Last(stack').out.content_by_mime_type["text/plain"] =
                          Flatten([k \in 1..Len(last_errors) |-> last_errors[k].explanation[1]])
                              \o <<"\n">> ]_vars

C6_Witness ==
    /\ status = "running"
    /\ log # <<>>
    /\ Last(log).ev = "command"
    /\ Last(log).command = ":explain"
    /\ Last(log).res.kind = "Ok"
    /\ Len(last_errors) = 2
    /\ last_errors[1] # last_errors[2]

----------------------------------------------------------------------------
(* Properties of the accumulator and of startup replay *)

\* The textual-order shape of the merges of a successful execute: one merge per
\* command fragment, in textual order, then the merge of the evaluation.
MergesInOrder(to_run, merged) ==
    LET idxs == CommandIdxs(to_run) IN
    /\ Len(merged) = Len(idxs) + 1
    /\ \A k \in 1..Len(idxs) : merged[k].src = "command" /\ merged[k].idx = idxs[k]
    /\ Last(merged).src = "eval"

SucceededExecute == status = "done" /\ call.api = "execute" /\ ret.kind = "Ok"

\* C4 as stated: N + 1 merges in that shape, and no merge but the last brings a
\* payload of the evaluation engine, whatever the command.
C4_OnlyLastMergeHasEnginePayload ==
    SucceededExecute =>
        /\ MergesInOrder(call.to_run, ret.merged)
        /\ \A k \in 1..(Len(ret.merged) - 1) : ~ret.merged[k].engine

\* C4, amended: N + 1 merges in that shape, and a merge other than the last brings
\* a payload of the evaluation engine only if its command is ":load_config" (whose
\* result holds what the replayed lines and prelude evaluated).
C4_OnlyLastOrReplayMergeHasEnginePayload ==
    SucceededExecute =>
        /\ MergesInOrder(call.to_run, ret.merged)
        /\ \A k \in 1..(Len(ret.merged) - 1) :
              ret.merged[k].engine => call.to_run[ret.merged[k].idx].command = ":load_config"

C4_Witness ==
    /\ SucceededExecute
    /\ call.to_run = <<Code("a"), Command(":load_config", None)>>
    /\ Len(ret.merged) = 2
    /\ ret.merged[1].engine
    /\ ret.merged[2].engine

\* C5, the order: a replay has dispatched the lines 1 .. i-1 of the startup file,
\* in file order and all with success, when it stands at line i; the call it waits
\* for is an execute of that line; and it turns to the prelude only with every
\* line dispatched.
C5_Order ==
    \A d \in 1..Len(stack) :
        LET f == stack[d] IN
        f.proc = "load_config" =>
            /\ f.i <= Len(f.input) + 1
            /\ Len(f.merged) = f.i - 1
            /\ \A k \in 1..Len(f.merged) : f.merged[k].src = "line" /\ f.merged[k].idx = k
            /\ (f.pc = "line_call" /\ d < Len(stack)) =>
                  /\ stack[d + 1].proc = "execute"
                  /\ stack[d + 1].input = f.input[f.i]
            /\ f.pc \in {"prelude", "prelude_call"} => f.i = Len(f.input) + 1
            /\ (f.pc = "prelude_call" /\ d < Len(stack)) => stack[d + 1].proc = "execute"

\* C5, the failures: a failure handed to a caller in the replay is handed on at
\* once and unchanged, with nothing dispatched after it, and a file that cannot be
\* read ends the replay with the read's error.
C5_Abort ==
    /\ (status = "running" /\ ret.kind = "Err" /\ vars' # vars) =>
          /\ stack' = Pop
          /\ ret' = ret
          /\ print_timings' = print_timings
          /\ eval_context' = eval_context
    /\ (status = "running" /\ Top.proc = "load_config" /\ ret.kind # "Err" /\ ret'.kind = "Err") =>
          /\ ret'.err = IoError
          /\ stack' = Pop

\* C5: startup replay dispatches the lines of the startup file in file order, each
\* through execute, before the prelude, which it dispatches only if every line
\* succeeded; the first failure ends the replay and is what the caller gets.
C5_StartupReplay == []C5_Order /\ [][C5_Abort]_vars

C5_Witness ==
    /\ Len(stack) = 3
    /\ stack[2].proc = "load_config"
    /\ stack[2].pc = "prelude_call"
    /\ Len(stack[2].input) = 2
    /\ stack[2].input[1] # stack[2].input[2]
    /\ Len(stack[2].merged) = 2
    /\ stack[3].proc = "execute"

----------------------------------------------------------------------------
(* Properties of ":dep" *)

IsSpaceOrEq(c) == c \in {" ", "="}
IsWhitespace(c) == c \in {" ", "\t"}

\* The length of the longest leading run of s whose characters are not Stop.
LeadingRun(s, Stop(_)) ==
    CHOOSE n \in 0..Len(s) :
        /\ \A i \in 1..n : ~Stop(s[i])
        /\ n < Len(s) => Stop(s[n + 1])

DropLeading(s, Drop(_)) ==
    LET n == CHOOSE n \in 0..Len(s) :
                /\ \A i \in 1..n : Drop(s[i])
                /\ n < Len(s) => ~Drop(s[n + 1])
    IN  SubSeq(s, n + 1, Len(s))

DropTrailing(s, Drop(_)) ==
    LET n == CHOOSE n \in 0..Len(s) :
                /\ \A i \in (n + 1)..Len(s) : Drop(s[i])
                /\ n > 0 => ~Drop(s[n])
    IN  SubSeq(s, 1, n)

IsSpace(c) == c = " "

NoDep == [ok |-> FALSE, name |-> <<>>, spec |-> <<>>]
Dep(name, spec) == [ok |-> TRUE, name |-> name, spec |-> spec]

\* The dependency an argument declares as C7 states it: the name is the longest
\* leading run without whitespace and '=', and the specification is the text after
\* the '=', trimmed.
DepAsStated(s) ==
    LET n == LeadingRun(s, LAMBDA c : IsWhitespace(c) \/ c = "=")
        rest == DropLeading(SubSeq(s, n + 1, Len(s)), IsWhitespace)
    IN  IF n = 0 THEN NoDep
        ELSE IF rest = <<>> THEN Dep(SubSeq(s, 1, n), DepWildcard)
        ELSE IF Head(rest) # "=" THEN NoDep
        ELSE LET spec == DropTrailing(DropLeading(Tail(rest), IsWhitespace), IsWhitespace)
             IN  IF spec = <<>> THEN NoDep ELSE Dep(SubSeq(s, 1, n), spec)

\* The dependency an argument declares, amended: the name is the longest leading
\* run without space and '='; the specification is the text after the '=' without
\* its leading spaces, or one space when only spaces follow the '='.
DepAmended(s) ==
    LET n == LeadingRun(s, IsSpaceOrEq)
        rest == DropLeading(SubSeq(s, n + 1, Len(s)), IsSpace)
    IN  IF n = 0 THEN NoDep
        ELSE IF rest = <<>> THEN Dep(SubSeq(s, 1, n), DepWildcard)
        ELSE IF Head(rest) # "=" \/ Tail(rest) = <<>> THEN NoDep
        ELSE LET spec == DropLeading(Tail(rest), IsSpace)
             IN  Dep(SubSeq(s, 1, n), IF spec = <<>> THEN <<" ">> ELSE spec)

\* What a dispatch of ":dep" does, given the dependency parse(argument) declares:
\* without an argument or a declaration it fails and registers nothing; otherwise
\* it registers the declared name with the declared specification, unless the
\* engine refuses, which registers nothing either.
DepDispatch(parse(_)) ==
    Dispatches(":dep") =>
        LET dep == IF Segment.args = None THEN NoDep ELSE parse(Segment.args[1]) IN
        IF ~dep.ok
        THEN /\ ret'.kind = "Err"
             /\ ret'.err.type = "Message"
             /\ eval_context' = eval_context
        ELSE \/ /\ ret'.kind = "Err"
                /\ ret'.err = EngineError
                /\ eval_context' = eval_context
             \/ /\ ret'.kind # "Err"
                /\ DOMAIN eval_context'.deps = DOMAIN eval_context.deps \cup {dep.name}
                /\ eval_context'.deps[dep.name] = dep.spec

\* C7 as stated.
C7_DepAsStated == [][DepDispatch(DepAsStated)]_vars

\* C7, amended: ":dep" fails and registers nothing without an argument or with one
\* that is not `name [= spec]`; a name alone registers (name, "*"); `name = spec`
\* registers (name, spec), the name being the longest leading run of characters
\* other than space and '=', and spec the text after the '=' without its leading
\* spaces (trailing spaces kept; one space when only spaces follow the '=').
C7_DepAmended == [][DepDispatch(DepAmended)]_vars

C7_Witness ==
    /\ status = "running"
    /\ log # <<>>
    /\ Last(log).command = ":dep"
    /\ Last(log).args = Some(<<"a", " ", "=", "a">>)
    /\ Last(log).res.kind = "Ok"
    /\ DOMAIN eval_context.deps = {<<"a">>}
    /\ eval_context.deps[<<"a">>] = <<"a">>

----------------------------------------------------------------------------
(* Properties of ":opt" *)

\* C8 as stated: two successive ":opt" without argument bring the level back to
\* what it was before them, whatever it was.
C8_ToggleTwiceRestores == toggles.n = 2 => eval_context.opt_level = toggles.orig

\* C8, amended: two successive ":opt" without argument, both accepted by the
\* engine, bring the level back to what it was when that was "0" or "2"; from any
\* other level they leave it at "0".
C8_ToggleTwiceRestoresPresets ==
    toggles.n = 2 =>
        eval_context.opt_level = (IF toggles.orig \in {Str0, Str2} THEN toggles.orig ELSE Str0)

C8_Witness ==
    /\ toggles.n = 2
    /\ toggles.orig = Str0
    /\ eval_context.opt_level = Str0

----------------------------------------------------------------------------
(* Properties of ":vars" *)

\* A name or type as the markup shows it: '<' and '>' replaced, the rest as it is.
Escaped(s) ==
    [i \in 1..Len(s) |-> IF s[i] = "<" THEN "&lt;" ELSE IF s[i] = ">" THEN "&gt;" ELSE s[i]]

\* C11: ":vars" succeeds with two renderings of the engine's (name, type) pairs,
\* both with one entry per pair in the engine's order: the plain text has the line
\* `name: type` per pair, unescaped, and the markup has one table row per pair with
\* '<' and '>' of the name and the type escaped; the session is left as it was.
C11_VarsRenderings ==
    [][ Dispatches(":vars") =>
          LET vs == eval_context.vars
              content == Last(stack').out.content_by_mime_type
          IN  /\ Len(stack') = Len(stack)
              /\ DOMAIN content = {"text/plain", "text/html"}
              /\ content["text/plain"] =
                    Flatten([k \in 1..Len(vs) |-> vs[k].var \o <<": ">> \o vs[k].ty \o <<"\n">>])
              /\ content["text/html"] =
                    <<"<table><tr><th>Variable</th><th>Type</th></tr>">>
                    \o Flatten([k \in 1..Len(vs) |->
                          <<"<tr><td>">> \o Escaped(vs[k].var) \o <<"</td><td>">>
                              \o Escaped(vs[k].ty) \o <<"</td><tr>">>])
                    \o <<"</table>">>
              /\ eval_context' = eval_context ]_vars

C11_Witness ==
    /\ status = "running"
    /\ log # <<>>
    /\ Last(log).command = ":vars"
    /\ Last(log).res.kind = "Ok"
    /\ Len(eval_context.vars) = 2
    /\ eval_context.vars[1] = Variable(<<"a", "<", "b">>, <<"V", "<", "i", ">">>)
    /\ eval_context.vars[2] = Variable(<<"x">>, <<"i">>)
    /\ Top.i = 2

----------------------------------------------------------------------------
(* Properties of ":last_error_json" and ":clear" *)

\* What a dispatch of ":last_error_json" does, Encoded(error) being what the
\* message holds for one recorded diagnostic: it fails, whatever last_errors is,
\* with the message made of Encoded of every recorded diagnostic in record order,
\* makes no engine call and leaves the session as it was.
LastErrorJsonDispatch(Encoded(_)) ==
    Dispatches(":last_error_json") =>
        /\ ret'.kind = "Err"
        /\ ret'.err.type = "Message"
        /\ ret'.err.msg = Flatten([k \in 1..Len(last_errors) |-> Encoded(last_errors[k])])
        /\ stack' = Pop
        /\ ~NewEval
        /\ print_timings' = print_timings
        /\ last_errors' = last_errors
        /\ eval_context' = eval_context

\* C12 as stated: the message is the encoded forms one after the other.
C12_MessageIsEncodedForms == [][LastErrorJsonDispatch(LAMBDA e : e.json)]_vars

\* C12, amended: ":last_error_json" always fails, also with last_errors empty; its
\* message is, in record order, the encoded form of every recorded diagnostic, each
\* followed by a line break; last_errors and the rest of the session are unchanged.
C12_MessageIsEncodedLines == [][LastErrorJsonDispatch(LAMBDA e : e.json \o <<"\n">>)]_vars

C12_Witness ==
    /\ status = "done"
    /\ log # <<>>
    /\ Last(log).command = ":last_error_json"
    /\ Len(last_errors) = 2
    /\ ret.kind = "Err"
    /\ ret.err.msg = <<"j1", "\n", "j2", "\n">>

\* C19, the dispatch: ":clear" leaves print_timings and last_errors as they are;
\* it either fails with the engine's error, the engine unchanged, or succeeds with
\* nothing but the engine's evaluation state (its variables) reset.
C19_ClearDispatch ==
    Dispatches(":clear") =>
        /\ print_timings' = print_timings
        /\ last_errors' = last_errors
        /\ ~NewEval
        /\ \/ /\ ret'.kind = "Err"
              /\ ret'.err = EngineError
              /\ stack' = Pop
              /\ eval_context' = eval_context
           \/ /\ ret'.kind # "Err"
              /\ Len(stack') = Len(stack)
              /\ Last(stack').out = Top.out
              /\ eval_context' = [eval_context EXCEPT !.vars = <<>>]

\* C19, what follows: ":explain" and ":last_error_json" dispatched after a ":clear"
\* of the same call report the failure recorded before the call.
C19_ReportsAfterClear ==
    \A p, q \in 1..Len(log) :
        (p < q /\ log[p].command = ":clear" /\ log[p].res.kind = "Ok") =>
            LET errs == call.before.last_errors IN
            /\ log[q].command = ":last_error_json" =>
                  log[q].res.err.msg = Flatten([k \in 1..Len(errs) |-> errs[k].json \o <<"\n">>])
            /\ (log[q].command = ":explain" /\ log[q].res.kind = "Ok") =>
                  /\ errs # <<>>
                  /\ log[q].res.out.content_by_mime_type["text/plain"] =
                        Flatten([k \in 1..Len(errs) |-> errs[k].explanation[1]]) \o <<"\n">>
            /\ (log[q].command = ":explain" /\ log[q].res.kind = "Err") =>
                  (errs = <<>> \/ \E k \in 1..Len(errs) : errs[k].explanation = None)

----------------------------------------------------------------------------
(* Properties of ":quit" *)

\* C13, the dispatch: ":quit" ends the process where the scan stands.
C13_QuitDispatch == Dispatches(":quit") => status' = "exited"

\* C13, the end: once the process has exited nothing happens any more.
C13_Exited == status = "exited" => vars' = vars

\* C13, the state of an exited process: no Result was returned, the last thing
\* done was the dispatch of ":quit", the fragments dispatched are the commands that
\* precede it in the input, and the engine has evaluated nothing of the input.
C13_NothingAfterQuit ==
    status = "exited" =>
        /\ ret = NoRet
        /\ log # <<>>
        /\ Last(log).command = ":quit"
        /\ \A p \in 1..Len(log) : log[p].ev = "command"
        /\ [p \in 1..Len(log) |-> log[p].idx] =
              CommandIdxs(SubSeq(call.to_run, 1, Last(log).idx))
        /\ last_errors = call.before.last_errors

\* C13: when ":quit" is dispatched the session ends at once and for good: no
\* accumulator is returned, no fragment after ":quit" is dispatched, the deferred
\* code of the input is never evaluated, and no later call runs.
C13_QuitTerminates == [][C13_QuitDispatch /\ C13_Exited]_vars /\ []C13_NothingAfterQuit

C13_Witness ==
    /\ status = "exited"
    /\ call.to_run = <<Code("a"), Command(":quit", None)>>
    /\ Top.code = <<"a">>
    /\ Len(log) = 1

----------------------------------------------------------------------------
(* Properties of completions *)

InCompletions == call.api = "completions"

\* This step applies the ":dep" segment a completion query stands at.
AppliesDep ==
    /\ InCompletions
    /\ CompletionsScanning
    /\ Segment.kind = "Command"
    /\ Segment.command = ":dep"
    /\ vars' # vars

\* C14, the steps: a ":dep" that a query applies lets the scan go on whether it
\* failed or not, and no step of the session, in the query or after it, takes a
\* registered dependency back or changes it, except a ":dep" of a query that
\* registers its name again.
C14_Steps ==
    /\ AppliesDep =>
          /\ status' = "running"
          /\ ret' = NoRet
          /\ Len(stack') = 1
          /\ Top'.i = Top.i + 1
    /\ \A n \in DOMAIN eval_context.deps :
          /\ n \in DOMAIN eval_context'.deps
          /\ eval_context'.deps[n] # eval_context.deps[n] => AppliesDep

\* C14, the result: a finished query has made the engine's completion call, on the
\* code of the input and after every declaration of the input was applied, and
\* returns what that call returned; each declaration that was applied with success
\* is registered.
C14_Result ==
    (InCompletions /\ status = "done") =>
        /\ log # <<>>
        /\ Last(log).ev = "completions"
        /\ Last(log).code = CodeFragments(call.to_run)
        /\ ret = Last(log).res
        /\ Len(log) - 1 = Cardinality({i \in 1..Len(call.to_run) :
                                          /\ call.to_run[i].kind = "Command"
                                          /\ call.to_run[i].command = ":dep"})
        /\ \A p \in 1..(Len(log) - 1) :
              /\ log[p].command = ":dep"
              /\ log[p].res.kind = "Ok" =>
                    \E n \in DOMAIN eval_context.deps :
                        /\ n # <<>>
                        /\ Len(n) <= Len(log[p].args[1])
                        /\ n = SubSeq(log[p].args[1], 1, Len(n))

C20_CompletionsFrame ==
    InCompletions =>
        /\ print_timings = call.before.print_timings
        /\ last_errors = call.before.last_errors
        /\ [eval_context EXCEPT !.deps = call.before.eval_context.deps] = call.before.eval_context
        /\ status \in {"running", "done"}
        /\ Len(stack) <= 1
        /\ \A d \in 1..Len(stack) : stack[d].proc = "completions"
        /\ \A p \in 1..Len(log) :
              /\ log[p].ev # "eval"
              /\ log[p].ev = "command" => log[p].command = ":dep"

C20_Witness ==
    /\ InCompletions
    /\ status = "done"
    /\ call.to_run = <<Command(":quit", None), Command(":timing", None)>>
    /\ print_timings
    /\ last_errors # <<>>
    /\ ret.kind = "Ok"

----------------------------------------------------------------------------
(* Termination *)

\* C15: whatever the input and the startup files, also a startup file that holds
\* ":load_config", a call of execute that has ended has ended by returning (in
\* completion or in failure) or by ":quit": it never ends by exhausting the stack.
C15_EndsByReturnOrQuit == status \in {"idle", "running", "done", "exited"}

----------------------------------------------------------------------------
(* Properties of failed calls *)

\* This step dispatches a command of the innermost execute, and the command fails.
CommandFails ==
    /\ Scanning
    /\ Segment.kind = "Command"
    /\ vars' # vars
    /\ log' # log
    /\ Last(log').res.kind = "Err"

\* C16, the step: a command that fails ends the call at once, with its error as
\* the Result, without an engine call, and leaves last_errors as it is.
C16_FailingStep ==
    CommandFails =>
        /\ stack' = Pop
        /\ status' = "done"
        /\ ret' = Last(log').res
        /\ Last(log').ev = "command"
        /\ last_errors' = last_errors

\* C16, the call: an execute whose last dispatched command failed has dispatched
\* the commands up to that one and none after it, has made no engine call for the
\* code before or after it, has not changed last_errors, and returns that
\* command's error.
C16_FailedCall ==
    (status = "done" /\ log # <<>> /\ Last(log).ev = "command" /\ Last(log).res.kind = "Err") =>
        /\ ret = Last(log).res
        /\ \A p \in 1..Len(log) : log[p].ev = "command"
        /\ [p \in 1..Len(log) |-> log[p].idx] = CommandIdxs(SubSeq(call.to_run, 1, Last(log).idx))
        /\ \A p \in 1..(Len(log) - 1) : log[p].res.kind = "Ok"
        /\ last_errors = call.before.last_errors

Succeeded(command) ==
    {p \in 1..Len(log) : log[p].ev = "command" /\ log[p].command = command /\ log[p].res.kind = "Ok"}

\* C17, the state a failed call leaves: no output is returned, and what the
\* commands dispatched with success before the failure did is in effect: the
\* timing flag flipped once per ":timing", the output format ":fmt" set, the
\* dependency ":dep" registered, the variables ":clear" forgot.
C17_FailedCallState ==
    (status = "done" /\ call.api = "execute" /\ ret.kind = "Err") =>
        LET b == call.before IN
        /\ ret.out = EvalOutputs_new
        /\ print_timings = (b.print_timings # (Cardinality(Succeeded(":timing")) % 2 = 1))
        /\ eval_context.output_format =
              (IF Succeeded(":fmt") # {} THEN FmtDisplay ELSE b.eval_context.output_format)
        /\ DOMAIN eval_context.deps =
              DOMAIN b.eval_context.deps \cup (IF Succeeded(":dep") # {} THEN {<<"a">>} ELSE {})
        /\ eval_context.vars = (IF Succeeded(":clear") # {} THEN <<>> ELSE b.eval_context.vars)

\* C17, afterwards: handing the failure to the caller changes nothing of it.
C17_KeptForLaterCalls ==
    (status = "done" /\ status' = "idle") =>
        /\ print_timings' = print_timings
        /\ last_errors' = last_errors
        /\ eval_context' = eval_context

\* C17: a failed execute is not rolled back: the changes made by the commands that
\* were dispatched before the failure (of a later command or of the evaluation)
\* stay in effect for later calls, and none of their outputs is returned.
C17_NoRollback == []C17_FailedCallState /\ [][C17_KeptForLaterCalls]_vars

C17_Witness ==
    /\ status = "done"
    /\ ret.kind = "Err"
    /\ call.to_run = <<Command(":dep", Some(<<"a">>)), Command(":bogus", None)>>
    /\ Len(log) = 2
    /\ call.before.eval_context.deps = EmptyMap
    /\ DOMAIN eval_context.deps = {<<"a">>}
    /\ print_timings

----------------------------------------------------------------------------
(* Properties of ":timing" *)

\* The number of ":timing" fragments of an input.
TimingToggles(to_run) ==
    Cardinality({i \in 1..Len(to_run) :
                    to_run[i].kind = "Command" /\ to_run[i].command = ":timing"})

====
